---- MODULE Spec2Model ----
(***************************************************************************)
(* State-machine model of the tracing subsystem (utils/tracer.py,          *)
(* agents/protocol.py), the reflection-and-revise loop                     *)
(* (agents/patterns.py) and the retrying agent call                        *)
(* (agents/agent_base.py, agents/summarize_tool.py).                       *)
(*                                                                         *)
(* Text values are TLA+ strings, i.e. sequences of characters: Len, \o     *)
(* and SubSeq act on them character by character.                          *)
(***************************************************************************)
EXTENDS Integers, Sequences, FiniteSets, TLC

(***************************************************************************)
(* Bounds of the model.                                                    *)
(***************************************************************************)
\* largest max_retries handed to reflective_improve
MaxR == 2
\* largest elapsed time (ms) a finalize can observe
MaxElapsed == 1
\* largest max_retries of an agent
MaxAgentRetries == 3
\* number of execute invocations made on one agent
MaxInvocations == 2
MaxLogged == 2
MaxFinalizes == 2
MaxWriters == 2

(***************************************************************************)
(* Optional values: None is the empty tuple, Some(v) a one-element tuple.  *)
(***************************************************************************)
None == <<>>
Some(v) == <<v>>

(***************************************************************************)
(* str.lower() and the substring test `t in s`.                            *)
(***************************************************************************)
\* the capitals of the texts the model handles, which are written in
\* ASCII and Latin-1, with their lower case
LowerTable ==
  [c \in {"A","B","C","D","E","F","G","H","I","J","K","L","M",
          "N","O","P","Q","R","S","T","U","V","W","X","Y","Z",
          "À","Á","Â","Ã","Ä","Å","Æ","Ç","È","É","Ê","Ë","Ì",
          "Í","Î","Ï","Ð","Ñ","Ò","Ó","Ô","Õ","Ö","Ø","Ù","Ú",
          "Û","Ü","Ý","Þ"} |->
     CASE c = "A" -> "a" [] c = "B" -> "b" [] c = "C" -> "c" [] c = "D" -> "d"
       [] c = "E" -> "e" [] c = "F" -> "f" [] c = "G" -> "g" [] c = "H" -> "h"
       [] c = "I" -> "i" [] c = "J" -> "j" [] c = "K" -> "k" [] c = "L" -> "l"
       [] c = "M" -> "m" [] c = "N" -> "n" [] c = "O" -> "o" [] c = "P" -> "p"
       [] c = "Q" -> "q" [] c = "R" -> "r" [] c = "S" -> "s" [] c = "T" -> "t"
       [] c = "U" -> "u" [] c = "V" -> "v" [] c = "W" -> "w" [] c = "X" -> "x"
       [] c = "Y" -> "y" [] c = "Z" -> "z" [] c = "À" -> "à" [] c = "Á" -> "á"
       [] c = "Â" -> "â" [] c = "Ã" -> "ã" [] c = "Ä" -> "ä" [] c = "Å" -> "å"
       [] c = "Æ" -> "æ" [] c = "Ç" -> "ç" [] c = "È" -> "è" [] c = "É" -> "é"
       [] c = "Ê" -> "ê" [] c = "Ë" -> "ë" [] c = "Ì" -> "ì" [] c = "Í" -> "í"
       [] c = "Î" -> "î" [] c = "Ï" -> "ï" [] c = "Ð" -> "ð" [] c = "Ñ" -> "ñ"
       [] c = "Ò" -> "ò" [] c = "Ó" -> "ó" [] c = "Ô" -> "ô" [] c = "Õ" -> "õ"
       [] c = "Ö" -> "ö" [] c = "Ø" -> "ø" [] c = "Ù" -> "ù" [] c = "Ú" -> "ú"
       [] c = "Û" -> "û" [] c = "Ü" -> "ü" [] c = "Ý" -> "ý" [] c = "Þ" -> "þ"]

LowerChar(c) == IF c \in DOMAIN LowerTable THEN LowerTable[c] ELSE c

RECURSIVE lower(_)
lower(s) ==
  IF Len(s) = 0 THEN ""
  ELSE LowerChar(SubSeq(s, 1, 1)) \o lower(SubSeq(s, 2, Len(s)))

\* variant: the test `s.startswith(t)` in place of `t in s`
Contains_PrefixOnly(s, t) ==
  Len(t) <= Len(s) /\ SubSeq(s, 1, Len(t)) = t

\* Python's `t in s` on strings
Contains(s, t) ==
  \E i \in 0..(Len(s) - Len(t)) : SubSeq(s, i + 1, i + Len(t)) = t

\* the literal searched for in the lowered critique response
NO_REVISION_MARKER == "\"revise_required\": false"

\* variant: the search without `.lower()`
NoRevisionMarkerIn_CaseSensitive(critique_response) ==
  Contains(critique_response, NO_REVISION_MARKER)

\* line 74: `"\"revise_required\": false" in critique_response.lower()`
NoRevisionMarkerIn(critique_response) ==
  Contains(lower(critique_response), NO_REVISION_MARKER)

(***************************************************************************)
(* Message / Exchange data model.                                          *)
(***************************************************************************)
Role == {"user", "agent", "validator", "system", "tool"}

\* id stands for the uuid4 drawn at construction: a fresh number
APMessage(id, role, sender, content) ==
  [id |-> id, role |-> role, sender |-> sender, content |-> content]

APExchange(tid) ==
  [task_id |-> tid, messages |-> <<>>,
   cost_tokens_prompt |-> 0, cost_tokens_output |-> 0,
   latency_ms |-> None, verdict |-> None]

(***************************************************************************)
(* Tracer.                                                                 *)
(***************************************************************************)
TracerNew(tid) == APExchange(tid)

\* variant: a message whose sender and content were logged before is dropped
TracerLog_Dedup(ex, msg) ==
  IF \E i \in 1..Len(ex.messages) :
       /\ ex.messages[i].sender = msg.sender
       /\ ex.messages[i].content = msg.content
    THEN ex
    ELSE [ex EXCEPT !.messages = Append(@, msg)]

\* variant: the message is put in front of the earlier ones
TracerLog_Prepend(ex, msg) == [ex EXCEPT !.messages = <<msg>> \o @]

TracerLog(ex, msg) == [ex EXCEPT !.messages = Append(@, msg)]

\* int((time.time() - self._start) * 1000) as read by a finalize call: no
\* time or the longest time a caller lets pass, or a negative number when
\* the wall clock was set back behind _start
ElapsedSamples == {-1, 0, MaxElapsed}

\* variant: the token arguments replace the totals
FinalizeExchange_Overwrite(ex, verdict, prompt_tokens, output_tokens, elapsed) ==
  [ex EXCEPT !.latency_ms = Some(elapsed),
             !.cost_tokens_prompt = prompt_tokens,
             !.cost_tokens_output = output_tokens,
             !.verdict = IF verdict # None THEN verdict ELSE @]

\* the in-memory part of finalize, lines 64-68
FinalizeExchange(ex, verdict, prompt_tokens, output_tokens, elapsed) ==
  [ex EXCEPT !.latency_ms = Some(elapsed),
             !.cost_tokens_prompt = @ + prompt_tokens,
             !.cost_tokens_output = @ + output_tokens,
             !.verdict = IF verdict # None THEN verdict ELSE @]

\* An exception as the code meets it: the name of its class and the
\* classes it derives from (its __mro__, without object).
PermissionError ==
  [name |-> "PermissionError",
   mro |-> <<"PermissionError", "OSError", "Exception", "BaseException">>]

OSError ==
  [name |-> "OSError", mro |-> <<"OSError", "Exception", "BaseException">>]

KeyboardInterrupt ==
  [name |-> "KeyboardInterrupt",
   mro |-> <<"KeyboardInterrupt", "BaseException">>]

\* The places of finalize where a call can end with an exception:
\*   "line64"       in time.time(), before latency_ms is assigned
\*   "line65"       latency_ms assigned, no token argument added
\*   "line66"       prompt_tokens added, output_tokens not
\*   "line67"       both added, the verdict not assigned
\*   "open"         in open (line 71), the file as it was
\*   "write_start"  the file open, the write stopped before its first byte
\*   "write_part"   the write stopped part-way
\*   "close"        the whole line written, the `with` block not left
\*   "info"         after logger.info (line 73), before finalize returns
\* and "end" for a call that runs to its end. When `except Exception`
\* (line 74) has caught the exception, the handler's logger.error (line 75)
\* is a further place where the call can end with an exception:
\*   "error"        in logger.error, before the entry is written
\*   "error_after"  in logger.error, the entry written
OutsideTry == {"line64", "line65", "line66", "line67"}

InsideTry == {"open", "write_start", "write_part", "close", "info"}

InHandler == {"error", "error_after"}

\* how a finalize call ends: with no exception at its end, or with an
\* exception at one of its places; `handler` is the exception, if any, that
\* ends the handler of lines 74-75 after the first one was caught
Ok == [exc |-> None, at |-> "end", handler |-> None]

Fails(exception, place) ==
  [exc |-> Some(exception), at |-> place, handler |-> None]

\* a call whose exception was caught and whose handler ends with
\* `exception` at `place`
FailsInHandler(outcome, exception, place) ==
  [outcome EXCEPT !.handler = Some([exc |-> exception, at |-> place])]

\* how lines 70-72 can end: normally; with the PermissionError open raises
\* on a path that cannot be written; with the OSError of a write that the
\* file system stops part-way (disk full, quota, file size limit)
WriteOutcomes ==
  {Ok, Fails(PermissionError, "open"), Fails(OSError, "write_part")}

\* the KeyboardInterrupt of a signal that arrives during a finalize call:
\* at any of its places, those of the handler of a failed write included
Interrupts ==
  { Fails(KeyboardInterrupt, place) : place \in OutsideTry \cup InsideTry }
    \cup
  { FailsInHandler(outcome, KeyboardInterrupt, place) :
      outcome \in WriteOutcomes \ {Ok}, place \in InHandler }

\* what lines 70-72 have put into the file when the call ends
Written(outcome) ==
  CASE outcome.at \in {"end", "close", "info"} -> "line"
    [] outcome.at = "write_part" -> "fragment"
    [] OTHER -> "nothing"

\* lines 64-68 as far as a call ending at `place` has run them; fin is the
\* exchange after all of them
ExchangeAt(ex, fin, place) ==
  CASE place = "line64" -> ex
    [] place = "line65" -> [ex EXCEPT !.latency_ms = fin.latency_ms]
    [] place = "line66" ->
         [ex EXCEPT !.latency_ms = fin.latency_ms,
                    !.cost_tokens_prompt = fin.cost_tokens_prompt]
    [] place = "line67" -> [fin EXCEPT !.verdict = ex.verdict]
    [] OTHER -> fin

\* A trace file: its finished lines, and what stands after the last line
\* end. A finished line is the record that ended it and the fragments that
\* stood in front of that record; a fragment is the beginning of the record
\* of the exchange it names, without a line end.
EmptyFile == [lines |-> <<>>, tail |-> <<>>]

\* lines 70-72: open(path, "a") and one write of the record and "\n"; what
\* is written goes behind what the file holds
AppendTraceLine(file, ex, outcome) ==
  CASE Written(outcome) = "line" ->
         [lines |-> Append(file.lines, [before |-> file.tail, record |-> ex]),
          tail |-> <<>>]
    [] Written(outcome) = "fragment" ->
         [file EXCEPT !.tail = Append(@, ex)]
    [] OTHER -> file

\* os.path.join(TRACE_DIR, f"{self.task_id}.jsonl") with the default
\* TRACE_DIR: an absolute second component drops the first
TracePath(tid) ==
  IF Len(tid) > 0 /\ SubSeq(tid, 1, 1) = "/"
    THEN tid \o ".jsonl"
    ELSE "traces/" \o tid \o ".jsonl"

\* variant: an except clause for one exception class only
ExceptCatches_FileNotFoundOnly(exception) ==
  \E i \in 1..Len(exception.mro) : exception.mro[i] = "FileNotFoundError"

\* line 74: `except Exception` catches the exceptions whose class is
\* Exception or derives from it
ExceptCatches(exception) ==
  \E i \in 1..Len(exception.mro) : exception.mro[i] = "Exception"

\* is the call's exception handled at lines 74-75? Only one that arises
\* inside the try block (lines 70-73) can be
Caught(outcome) ==
  /\ outcome.exc # None
  /\ outcome.at \in InsideTry
  /\ ExceptCatches(outcome.exc[1])

\* does finalize end with an exception that reaches its caller? One that
\* line 74 does not catch, or one that ends the handler
FinalizeRaises(outcome) ==
  outcome.exc # None /\ (~Caught(outcome) \/ outcome.handler # None)

\* lines 73 and 75: the logger entries finalize writes
TraceLogEntry(tid, outcome) ==
  (IF outcome.at \in {"end", "info"}
     THEN << [level |-> "INFO", event |-> "trace_saved",
              path |-> TracePath(tid)] >>
     ELSE << >>)
  \o
  (IF Caught(outcome) /\ (outcome.handler = None
                           \/ outcome.handler[1].at = "error_after")
     THEN << [level |-> "ERROR", event |-> "trace_write_failed",
              path |-> TracePath(tid), error |-> outcome.exc[1].name] >>
     ELSE << >>)

(***************************************************************************)
(* State.                                                                  *)
(***************************************************************************)
VARIABLES
  \* reflective_improve: arguments
  task_id, agent_name, task_desc, draft, max_retries,
  \* reflective_improve: locals and position
  pc, attempt, current_draft, usage1, usage2, returned,
  \* the Tracer's exchange, the trace file of task_id, the uuid source
  exchange, trace_file, next_id,
  \* the logger entries written by the Tracer
  trace_log,
  \* observers: model calls made per kind, model calls that raised,
  \* Tracer.finalize calls, the replies llm_call returned in call order,
  \* the usage reported by the first critique call of the run
  critique_calls, revision_calls, llm_failures, finalize_calls, replies,
  first_usage,
  \* AgentBase: fields of the agent
  self_name, self_max_retries, self_verbose,
  \* execute / call_openai: position, the chat messages, the retry counter, what execute
  \* handed back to its caller (a reply or the exception)
  cpc, messages, retries, summary, raised_error,
  \* the logger's entries, and where the current invocation's begin
  log, log_start,
  \* observers: execute invocations so far, model calls made and replies
  \* received by the current invocation
  invocation, model_calls, llm_replies,
  \* a Tracer driven by its caller: position; observers: the messages handed
  \* to log in call order, the finalize calls in call order
  tpc, logged, finalizes,
  \* concurrent finalize calls for one task id: each call's position, the
  \* record it serialised, the data its file object still holds, and the
  \* content of the trace file they share
  wpc, wrec, wpending, shared_file

trVars == <<tpc, logged, finalizes>>

cwVars == <<wpc, wrec, wpending, shared_file>>

agVars == <<self_name, self_max_retries, self_verbose,
            cpc, messages, retries, summary, raised_error, log, log_start,
            invocation, model_calls, llm_replies>>

riLocals == <<agent_name, task_desc, draft, max_retries,
              pc, attempt, current_draft, usage1, usage2, returned,
              critique_calls, revision_calls, llm_failures, replies,
              first_usage>>

riVars == <<task_id, agent_name, task_desc, draft, max_retries,
            pc, attempt, current_draft, usage1, usage2, returned,
            exchange, trace_file, next_id,
            critique_calls, revision_calls, llm_failures, finalize_calls,
            replies, trace_log, first_usage>>

(***************************************************************************)
(* The model-call collaborator llm_call: it returns (content, usage) or    *)
(* raises.  The replies a critic and a reviser can give.                   *)
(***************************************************************************)
CritiqueReplies ==
  { "{\"issues\": [], \"revise_required\": false, \"patch\": \"\"}",
    "\"REVISE_REQUIRED\": FALSE",
    "{\"issues\": [\"typo\"], \"revise_required\": true, \"patch\": \"fix\"}",
    "\"revise_required\":false" }

RevisionReplies == { "revision A", "revision B" }

\* the usage llm_call reports: zeros from the Ollama branch, the provider's
\* counts from the OpenAI branch
Usages ==
  { [prompt_tokens |-> 0, output_tokens |-> 0],
    [prompt_tokens |-> 2, output_tokens |-> 1] }

TaskIds == { "t1" }
AgentNames == { "RefinerAgent" }
TaskDescs == { "write an article" }
Drafts == { "draft 0" }

(***************************************************************************)
(* reflective_improve.                                                     *)
(***************************************************************************)
\* `for attempt in range(max_retries + 1)`: is there an iteration `a`?
\* variant: range(max_retries)
RangeHasNext_Exclusive(a, r) == a < r

RangeHasNext(a, r) == a < r + 1

\* variant: the exit test one iteration late
IsLastAttempt_OffByOne(a, r) == a = r + 1

\* `if attempt == max_retries`
IsLastAttempt(a, r) == a = r

\* variant: the assignment of line 84 left out
DraftAfterRevision_Stale(current, revised) == current

\* line 84: `current_draft = revised`
DraftAfterRevision(current, revised) == revised

\* f"{agent_name}-reviser"
ReviserName(name) == name \o "-reviser"

\* variant: the revision's tokens alone
SumTokens_RevisionOnly(critique_tokens, revision_tokens) == revision_tokens

\* lines 88-89: usage1.get(...) + usage2.get(...)
SumTokens(critique_tokens, revision_tokens) == critique_tokens + revision_tokens

\* tracer.finalize(...): the exchange update, the file append and the
\* logger entries, for one observed elapsed time and one way of ending
\* (reflective_improve is followed for the outcomes of the append itself,
\* WriteOutcomes; a signal can arrive at any statement of a run and is not
\* an input of it)
Finalize(verdict, prompt_tokens, output_tokens, elapsed, outcome, ex) ==
  LET fin == ExchangeAt(ex,
                        FinalizeExchange(ex, verdict, prompt_tokens,
                                         output_tokens, elapsed),
                        outcome.at)
  IN /\ exchange' = fin
     /\ trace_file' = AppendTraceLine(trace_file, fin, outcome)
     /\ trace_log' = trace_log \o TraceLogEntry(fin.task_id, outcome)
     /\ finalize_calls' = finalize_calls + 1

\* lines 76 and 91: `return current_draft`, reached when finalize returned
ReturnAfterFinalize(outcome, value) ==
  IF FinalizeRaises(outcome)
    THEN pc' = "raised" /\ returned' = returned
    ELSE pc' = "done" /\ returned' = value

InitRI ==
  /\ task_id \in TaskIds
  /\ agent_name \in AgentNames
  /\ task_desc \in TaskDescs
  /\ draft \in Drafts
  /\ max_retries \in -1..MaxR
  /\ pc = "entry"
  /\ attempt = 0
  /\ current_draft = None
  /\ usage1 = None
  /\ usage2 = None
  /\ returned = None
  /\ exchange = None
  /\ trace_file = EmptyFile
  /\ next_id = 1
  /\ critique_calls = 0
  /\ revision_calls = 0
  /\ llm_failures = 0
  /\ finalize_calls = 0
  /\ replies = <<>>
  /\ trace_log = <<>>
  /\ first_usage = None

\* lines 56-62: build the Tracer, log the task and the draft, enter the loop
\* (or fall to line 93 when the range is empty)
Start ==
  /\ pc = "entry"
  /\ exchange' = TracerLog(
                   TracerLog(TracerNew(task_id),
                             APMessage(next_id, "user", "user", task_desc)),
                   APMessage(next_id + 1, "agent", agent_name, draft))
  /\ next_id' = next_id + 2
  /\ current_draft' = Some(draft)
  /\ attempt' = 0
  /\ IF RangeHasNext(0, max_retries)
       THEN /\ pc' = "critique"
            /\ returned' = returned
       ELSE /\ pc' = "done"
            /\ returned' = Some(draft)
  /\ UNCHANGED <<agVars, trVars, cwVars, trace_log, first_usage, replies, task_id, agent_name, task_desc, draft, max_retries,
                 usage1, usage2, trace_file,
                 critique_calls, revision_calls, llm_failures, finalize_calls>>

\* line 71 raises: the exception leaves reflective_improve
CritiqueFail ==
  /\ pc = "critique"
  /\ critique_calls' = critique_calls + 1
  /\ llm_failures' = llm_failures + 1
  /\ pc' = "raised"
  /\ UNCHANGED <<agVars, trVars, cwVars, trace_log, first_usage, replies, task_id, agent_name, task_desc, draft, max_retries,
                 attempt, current_draft, usage1, usage2, returned,
                 exchange, trace_file, next_id,
                 revision_calls, finalize_calls>>

\* lines 71-76: the critique carries the marker
CritiquePass ==
  /\ pc = "critique"
  /\ \E critique_response \in CritiqueReplies, u \in Usages,
        elapsed \in ElapsedSamples, outcome \in WriteOutcomes :
       /\ NoRevisionMarkerIn(critique_response)
       /\ critique_calls' = critique_calls + 1
       /\ replies' = Append(replies, critique_response)
       /\ usage1' = Some(u)
       /\ first_usage' = IF first_usage = None THEN Some(u) ELSE first_usage
       /\ Finalize(Some("pass"), u.prompt_tokens, u.output_tokens,
                   elapsed, outcome,
                   TracerLog(exchange,
                             APMessage(next_id, "validator", "critic",
                                       critique_response)))
       /\ next_id' = next_id + 1
       /\ ReturnAfterFinalize(outcome, current_draft)
  /\ UNCHANGED <<agVars, trVars, cwVars, task_id, agent_name, task_desc, draft, max_retries,
                 attempt, current_draft, usage2,
                 revision_calls, llm_failures>>

\* lines 71-74: the critique does not carry the marker
CritiqueRevise ==
  /\ pc = "critique"
  /\ \E critique_response \in CritiqueReplies, u \in Usages :
       /\ ~NoRevisionMarkerIn(critique_response)
       /\ critique_calls' = critique_calls + 1
       /\ replies' = Append(replies, critique_response)
       /\ usage1' = Some(u)
       /\ first_usage' = IF first_usage = None THEN Some(u) ELSE first_usage
       /\ exchange' = TracerLog(exchange,
                                APMessage(next_id, "validator", "critic",
                                          critique_response))
       /\ next_id' = next_id + 1
       /\ pc' = "revise"
  /\ UNCHANGED <<agVars, trVars, cwVars, trace_log, task_id, agent_name, task_desc, draft, max_retries,
                 attempt, current_draft, usage2, returned, trace_file,
                 revision_calls, llm_failures, finalize_calls>>

\* line 82 raises
ReviseFail ==
  /\ pc = "revise"
  /\ revision_calls' = revision_calls + 1
  /\ llm_failures' = llm_failures + 1
  /\ pc' = "raised"
  /\ UNCHANGED <<agVars, trVars, cwVars, trace_log, first_usage, replies, task_id, agent_name, task_desc, draft, max_retries,
                 attempt, current_draft, usage1, usage2, returned,
                 exchange, trace_file, next_id,
                 critique_calls, finalize_calls>>

\* lines 82-91: the revision of the last iteration
ReviseLast ==
  /\ pc = "revise"
  /\ IsLastAttempt(attempt, max_retries)
  /\ \E revised \in RevisionReplies, u \in Usages,
        elapsed \in ElapsedSamples, outcome \in WriteOutcomes :
       /\ revision_calls' = revision_calls + 1
       /\ replies' = Append(replies, revised)
       /\ usage2' = Some(u)
       /\ current_draft' = Some(DraftAfterRevision(current_draft[1], revised))
       /\ Finalize(Some("pass_after_revise"),
                   SumTokens(usage1[1].prompt_tokens, u.prompt_tokens),
                   SumTokens(usage1[1].output_tokens, u.output_tokens),
                   elapsed, outcome,
                   TracerLog(exchange,
                             APMessage(next_id, "agent",
                                       ReviserName(agent_name), revised)))
       /\ next_id' = next_id + 1
       /\ ReturnAfterFinalize(outcome, current_draft')
  /\ UNCHANGED <<agVars, trVars, cwVars, first_usage, task_id, agent_name, task_desc, draft, max_retries,
                 attempt, usage1,
                 critique_calls, llm_failures>>

\* lines 82-85 and back to line 62 (or to line 93 when the range is used up)
ReviseContinue ==
  /\ pc = "revise"
  /\ ~IsLastAttempt(attempt, max_retries)
  /\ \E revised \in RevisionReplies, u \in Usages :
       /\ revision_calls' = revision_calls + 1
       /\ replies' = Append(replies, revised)
       /\ usage2' = Some(u)
       /\ current_draft' = Some(DraftAfterRevision(current_draft[1], revised))
       /\ exchange' = TracerLog(exchange,
                                APMessage(next_id, "agent",
                                          ReviserName(agent_name), revised))
       /\ next_id' = next_id + 1
       /\ IF RangeHasNext(attempt + 1, max_retries)
            THEN /\ attempt' = attempt + 1
                 /\ pc' = "critique"
                 /\ returned' = returned
            ELSE /\ attempt' = attempt
                 /\ pc' = "done"
                 /\ returned' = current_draft'
  /\ UNCHANGED <<agVars, trVars, cwVars, first_usage, trace_log, task_id, agent_name, task_desc, draft, max_retries,
                 usage1, trace_file,
                 critique_calls, llm_failures, finalize_calls>>

NextRI ==
  \/ Start
  \/ CritiqueFail
  \/ CritiquePass
  \/ CritiqueRevise
  \/ ReviseFail
  \/ ReviseLast
  \/ ReviseContinue

(***************************************************************************)
(* AgentBase.call_openai and SummarizeTool.execute.                        *)
(***************************************************************************)
AgentReplies == { "summary A", "two\nlines", "" }

Texts == { "some medical text" }

\* str.replace("\n", " ")
RECURSIVE ReplaceNewlines(_)
ReplaceNewlines(s) ==
  IF Len(s) = 0 THEN ""
  ELSE (IF SubSeq(s, 1, 1) = "\n" THEN " " ELSE SubSeq(s, 1, 1))
         \o ReplaceNewlines(SubSeq(s, 2, Len(s)))

\* s[:120].replace("\n", " ")
Preview(s) ==
  ReplaceNewlines(SubSeq(s, 1, IF Len(s) < 120 THEN Len(s) ELSE 120))

\* the chat messages SummarizeTool.execute builds
SummarizeMessages(text) ==
  << [role |-> "system",
      content |-> "You are an AI assistant that summarizes medical texts."],
     [role |-> "user",
      content |-> "Please provide a concise summary of the following medical text:\n\n"
                    \o text \o "\n\nSummary:"] >>

\* utils/model.py, lines 63 and 81: llm_call turns every failure of the
\* provider call into `raise Exception(text)`
LlmError(text) ==
  [name |-> "Exception", mro |-> <<"Exception", "BaseException">>,
   text |-> text]

SystemExit ==
  [name |-> "SystemExit", mro |-> <<"SystemExit", "BaseException">>]

\* how a blocked llm_call can end with an exception: with one of its own
\* errors, or with an exception that passes through it (the
\* KeyboardInterrupt of a signal during the request, a SystemExit)
LlmFailures ==
  { LlmError("OpenAI chat completion failed: Connection error."),
    LlmError("Failed to call Ollama model at http://localhost:11434/api/chat: <urlopen error [Errno 111] Connection refused>"),
    KeyboardInterrupt,
    SystemExit }

\* variant: one attempt too many
WhileCond_Inclusive(r, m) == r <= m

\* `while retries < self.max_retries`
WhileCond(r, m) == r < m

\* lines 44-49: what one attempt logs before it calls the model
SendingEntries(verbose, name, msgs) ==
  IF verbose
    THEN << [level |-> "INFO", agent |-> name, event |-> "sending",
             text |-> "Sending messages to LLM:"] >>
         \o [i \in 1..Len(msgs) |->
               [level |-> "DEBUG", agent |-> name, event |-> "message",
                text |-> msgs[i].role \o ": "
                           \o Preview(msgs[i].content) \o "..."]]
    ELSE << >>

\* lines 52-55: what a successful attempt logs
ReceivedEntries(verbose, name, response_text) ==
  IF verbose
    THEN << [level |-> "INFO", agent |-> name, event |-> "received",
             text |-> Preview(response_text)] >>
    ELSE << >>

\* line 59: the entry of a failed attempt, e the exception caught and r the
\* incremented counter
ErrorEntry(name, e, r, m) ==
  [level |-> "ERROR", agent |-> name, event |-> "error", error |-> e.text,
   retry |-> r, of |-> m]

\* line 60: the terminal exception
TerminalError(name, m) == [agent |-> name, attempts |-> m]

\* line 56: `return response_text`
ReturnValue(response_text) == response_text

\* the head of the while loop, reached with counter r and logger entries l:
\* either the next attempt starts and blocks in llm_call, or line 60 raises
\* and the exception leaves execute
LoopHead(r, l, msgs) ==
  IF WhileCond(r, self_max_retries)
    THEN /\ log' = l \o SendingEntries(self_verbose, self_name, msgs)
         /\ model_calls' = model_calls + 1
         /\ cpc' = "llm_call"
         /\ raised_error' = raised_error
    ELSE /\ log' = l
         /\ model_calls' = model_calls
         /\ cpc' = "raised"
         /\ raised_error' = Some(TerminalError(self_name, self_max_retries))

RIIdle ==
  /\ agent_name = "RefinerAgent"
  /\ task_desc = "write an article"
  /\ draft = "draft 0"
  /\ max_retries = 1
  /\ pc = "entry"
  /\ attempt = 0
  /\ current_draft = None
  /\ usage1 = None
  /\ usage2 = None
  /\ returned = None
  /\ exchange = None
  /\ trace_file = EmptyFile
  /\ next_id = 1
  /\ critique_calls = 0
  /\ revision_calls = 0
  /\ llm_failures = 0
  /\ finalize_calls = 0
  /\ replies = <<>>
  /\ trace_log = <<>>
  /\ first_usage = None

RIQuiet == task_id = "t1" /\ RIIdle

AgentFields(names, retry_limits, verbosities) ==
  /\ self_name \in names
  /\ self_max_retries \in retry_limits
  /\ self_verbose \in verbosities
  /\ cpc = "idle"
  /\ messages = <<>>
  /\ retries = 0
  /\ summary = None
  /\ raised_error = None
  /\ log = <<>>
  /\ log_start = 0
  /\ invocation = 0
  /\ model_calls = 0
  /\ llm_replies = <<>>

\* SummarizeTool(max_retries, verbose)
InitAgent == AgentFields({"SummarizeTool"}, -1..MaxAgentRetries, BOOLEAN)

\* an agent nobody calls
AgentQuiet == AgentFields({"SummarizeTool"}, {3}, {TRUE})

\* variant: the counter keeps the failures of the invocation before
RetriesAtEntry_Carried(previous) == previous

\* line 41: `retries = 0`, whatever an earlier invocation left
RetriesAtEntry(previous) == 0

\* execute(text) up to the first llm_call (or to line 60)
Execute ==
  /\ cpc = "idle"
  /\ invocation < MaxInvocations
  /\ \E text \in Texts :
       /\ invocation' = invocation + 1
       /\ messages' = SummarizeMessages(text)
       /\ retries' = RetriesAtEntry(retries)
       /\ LoopHead(RetriesAtEntry(retries), log, SummarizeMessages(text))
  /\ UNCHANGED <<riVars, trVars, cwVars, self_name, self_max_retries, self_verbose,
                 summary, log_start, llm_replies>>

\* llm_call returns: lines 51-56, and execute returns the reply
LlmReturn ==
  /\ cpc = "llm_call"
  /\ \E response_text \in AgentReplies :
       /\ llm_replies' = Append(llm_replies, response_text)
       /\ log' = log \o ReceivedEntries(self_verbose, self_name, response_text)
       /\ summary' = Some(ReturnValue(response_text))
       /\ cpc' = "returned"
  /\ UNCHANGED <<riVars, trVars, cwVars, self_name, self_max_retries, self_verbose,
                 messages, retries, raised_error, log_start, invocation,
                 model_calls>>

\* llm_call ends with an exception. `except Exception` (line 57) catches
\* it when its class derives from Exception: lines 58-59 and back to the
\* loop head. Any other exception leaves call_openai and execute at once,
\* with the counter and the logger as they were.
LlmRaise ==
  /\ cpc = "llm_call"
  /\ \E exception \in LlmFailures :
       IF ExceptCatches(exception)
         THEN /\ retries' = retries + 1
              /\ LoopHead(retries + 1,
                          Append(log, ErrorEntry(self_name, exception,
                                                 retries + 1, self_max_retries)),
                          messages)
         ELSE /\ retries' = retries
              /\ log' = log
              /\ model_calls' = model_calls
              /\ cpc' = "raised"
              /\ raised_error' = Some(exception)
  /\ UNCHANGED <<riVars, trVars, cwVars, self_name, self_max_retries, self_verbose,
                 messages, summary, log_start, invocation, llm_replies>>

\* the caller has the outcome; the agent is ready for its next execute
NextCall ==
  /\ cpc \in {"returned", "raised"}
  /\ invocation < MaxInvocations
  /\ cpc' = "idle"
  /\ summary' = None
  /\ raised_error' = None
  /\ log_start' = Len(log)
  /\ model_calls' = 0
  /\ llm_replies' = <<>>
  /\ UNCHANGED <<riVars, trVars, cwVars, self_name, self_max_retries, self_verbose,
                 messages, retries, log, invocation>>

NextAgent ==
  \/ Execute
  \/ LlmReturn
  \/ LlmRaise
  \/ NextCall

(***************************************************************************)
(* A Tracer driven by its caller: Tracer(task_id), then log and finalize   *)
(* calls in any order.                                                     *)
(***************************************************************************)
Writers == 1..MaxWriters

\* no finalize call is under way
WritersQuiet ==
  /\ wpc = [w \in Writers |-> "idle"]
  /\ wrec = [w \in Writers |-> ""]
  /\ wpending = [w \in Writers |-> <<>>]
  /\ shared_file = ""

TracerTaskIds == { "t1", "" }

\* the messages a caller builds: APMessage(role=..., sender=..., content=...)
NewMessages(id) ==
  { APMessage(id, role, "user", "hello") : role \in {"user"} }

\* finalize(), finalize("pass", 2, 1), finalize("fail", 0, 3)
FinalizeArgs ==
  { [verdict |-> None, prompt_tokens |-> 0, output_tokens |-> 0],
    [verdict |-> Some("pass"), prompt_tokens |-> 2, output_tokens |-> 1],
    [verdict |-> Some("fail"), prompt_tokens |-> 0, output_tokens |-> 3] }

TracerQuiet ==
  /\ tpc = "unbuilt"
  /\ logged = <<>>
  /\ finalizes = <<>>

InitTracer ==
  /\ task_id \in TracerTaskIds
  /\ RIIdle
  /\ AgentQuiet
  /\ TracerQuiet
  /\ WritersQuiet

\* Tracer.__init__
TracerInit ==
  /\ tpc = "unbuilt"
  /\ exchange' = TracerNew(task_id)
  /\ tpc' = "ready"
  /\ UNCHANGED <<agVars, cwVars, riLocals, task_id, trace_file, next_id, trace_log,
                 finalize_calls, logged, finalizes>>

\* Tracer.log with a new message or with a message object logged before
TracerLogCall ==
  /\ tpc = "ready"
  /\ Len(logged) < MaxLogged
  /\ \E msg \in NewMessages(next_id) \cup { logged[i] : i \in 1..Len(logged) } :
       /\ exchange' = TracerLog(exchange, msg)
       /\ logged' = Append(logged, msg)
       /\ next_id' = IF msg.id = next_id THEN next_id + 1 ELSE next_id
  /\ UNCHANGED <<agVars, cwVars, riLocals, task_id, trace_file, trace_log,
                 finalize_calls, tpc, finalizes>>

\* what a finalize call adds to the history of calls
FinalizeRecord(a, elapsed, outcome, ex_after, file_after) ==
  [verdict |-> a.verdict,
   prompt_tokens |-> a.prompt_tokens,
   output_tokens |-> a.output_tokens,
   elapsed |-> elapsed,
   outcome |-> outcome,
   before |-> exchange,
   after |-> ex_after,
   file_before |-> trace_file,
   file_after |-> file_after]

\* Tracer.finalize, a call whose append ends in one of the ways of
\* WriteOutcomes: it returns
TracerFinalizeCall ==
  /\ tpc = "ready"
  /\ finalize_calls < MaxFinalizes
  /\ \E a \in FinalizeArgs, elapsed \in ElapsedSamples,
        outcome \in WriteOutcomes :
       /\ Finalize(a.verdict, a.prompt_tokens, a.output_tokens, elapsed,
                   outcome, exchange)
       /\ finalizes' = Append(finalizes,
                              FinalizeRecord(a, elapsed, outcome,
                                             exchange', trace_file'))
  /\ UNCHANGED <<agVars, cwVars, riLocals, task_id, next_id, logged, tpc>>

\* Tracer.finalize, a call that a signal cuts short: the KeyboardInterrupt
\* leaves finalize; the caller that catches it still holds the Tracer and
\* can go on with log and finalize
TracerFinalizeInterrupted ==
  /\ tpc = "ready"
  /\ finalize_calls < MaxFinalizes
  /\ \E a \in FinalizeArgs, elapsed \in ElapsedSamples,
        outcome \in Interrupts :
       /\ Finalize(a.verdict, a.prompt_tokens, a.output_tokens, elapsed,
                   outcome, exchange)
       /\ finalizes' = Append(finalizes,
                              FinalizeRecord(a, elapsed, outcome,
                                             exchange', trace_file'))
  /\ UNCHANGED <<agVars, cwVars, riLocals, task_id, next_id, logged, tpc>>

NextTracer ==
  \/ TracerInit
  \/ TracerLogCall
  \/ TracerFinalizeCall
  \/ TracerFinalizeInterrupted

(***************************************************************************)
(* Finalize calls of several tasks for one task id: each runs lines 69-72  *)
(* on the same path, its steps interleaved with the others'.               *)
(***************************************************************************)
\* the character U+0060, which a text of a module can hold only in front of '
Backtick == SubSeq("`'", 1, 1)

\* the characters U+0001 to U+00FF in the order of their code points
CharTable ==
  "\t\n\f\r !\"#$%&'()*+,-./0123456789:;<=>?@ABCDEFGHIJKLMNOPQRSTUVWXYZ[\\]^_"
    \o Backtick
    \o "abcdefghijklmnopqrstuvwxyz{|}~ ¡¢£¤¥¦§¨©ª«¬­®¯°±²³´µ¶·¸¹º»¼½¾¿ÀÁÂÃÄÅÆÇÈÉÊËÌÍÎÏÐÑÒÓÔÕÖ×ØÙÚÛÜÝÞßàáâãäåæçèéêëìíîïðñòóôõö÷øùúûüýþÿ"

\* ord(c)
CodePoint(c) == CHOOSE n \in 1..Len(CharTable) : SubSeq(CharTable, n, n) = c

HexDigits == "0123456789abcdef"

\* '\\u{0:04x}'.format(n) for n below 256
UnicodeEscape(n) ==
  "\\u00" \o SubSeq(HexDigits, (n \div 16) + 1, (n \div 16) + 1)
           \o SubSeq(HexDigits, (n % 16) + 1, (n % 16) + 1)

\* json.dumps on a string, ensure_ascii=True: the quote, the backslash and
\* every character outside ' '..'~' are escaped, seven of them by a short
\* escape and the others by \uXXXX
JsonEscapeChar(c) ==
  CASE c = "\"" -> "\\\""
    [] c = "\\" -> "\\\\"
    [] c = "\n" -> "\\n"
    [] c = "\t" -> "\\t"
    [] c = "\r" -> "\\r"
    [] c = "\f" -> "\\f"
    [] CodePoint(c) = 8 -> "\\b"
    [] CodePoint(c) \in 32..126 -> c
    [] OTHER -> UnicodeEscape(CodePoint(c))

RECURSIVE JsonEscape(_)
JsonEscape(s) ==
  IF Len(s) = 0 THEN ""
  ELSE JsonEscapeChar(SubSeq(s, 1, 1)) \o JsonEscape(SubSeq(s, 2, Len(s)))

JsonString(s) == "\"" \o JsonEscape(s) \o "\""

\* an Optional[str] / Optional[int] field
JsonOptionalString(v) == IF v = None THEN "null" ELSE JsonString(v[1])

JsonOptionalInt(v) == IF v = None THEN "null" ELSE ToString(v[1])

\* the items of a list, separated by ", "
RECURSIVE JsonItems(_)
JsonItems(items) ==
  IF items = <<>> THEN ""
  ELSE IF Len(items) = 1 THEN items[1]
  ELSE items[1] \o ", " \o JsonItems(Tail(items))

\* the `ts` field of a message: datetime.utcnow().isoformat() at construction
TsSample == "2026-01-01T00:00:00"

\* a message as json.dumps writes it: the fields in declaration order;
\* tool_name and tool_args are not set by any caller of the repository
DumpsMessage(m) ==
  "{\"id\": " \o JsonString(ToString(m.id))
    \o ", \"role\": " \o JsonString(m.role)
    \o ", \"sender\": " \o JsonString(m.sender)
    \o ", \"content\": " \o JsonString(m.content)
    \o ", \"tool_name\": null, \"tool_args\": null"
    \o ", \"ts\": " \o JsonString(TsSample) \o "}"

\* json.dumps(self.exchange.dict())
DumpsExchange(ex) ==
  "{\"task_id\": " \o JsonString(ex.task_id)
    \o ", \"messages\": ["
    \o JsonItems([k \in 1..Len(ex.messages) |-> DumpsMessage(ex.messages[k])])
    \o "], \"cost_tokens_prompt\": " \o ToString(ex.cost_tokens_prompt)
    \o ", \"cost_tokens_output\": " \o ToString(ex.cost_tokens_output)
    \o ", \"latency_ms\": " \o JsonOptionalInt(ex.latency_ms)
    \o ", \"verdict\": " \o JsonOptionalString(ex.verdict) \o "}"

\* the exchange of a Tracer that logged one message and is in finalize
WriterExchange(content, verdict) ==
  FinalizeExchange(
    TracerLog(TracerNew("t1"), APMessage(1, "user", "user", content)),
    verdict, 2, 1, 0)

Records ==
  { DumpsExchange(WriterExchange(content, verdict)) :
      content \in {"hi", "two\nlines, a \"quote\", a \\, a \t and an é"},
      verdict \in {None, Some("pass")} }

\* a line an earlier finalize left in the file
EarlierRecord == DumpsExchange(WriterExchange("old", Some("fail")))

\* how much of its data a write puts into the file when the file system
\* stops it: any beginning of the data, from nothing to all but the last
\* character (the records are ASCII, a character is a byte)
FragmentLengths(data) == 0..(Len(data) - 1)

\* open(path, "a"): the content stays, every write goes to the end
OpenAppend(file) == file

\* f.write(json.dumps(...) + "\n"): one string, which the file object hands
\* to the OS in one write when the `with` block closes the file
WriteCalls(record) == << record \o "\n" >>

InitWriters ==
  /\ wpc = [w \in Writers |-> "idle"]
  /\ wrec = [w \in Writers |-> ""]
  /\ wpending = [w \in Writers |-> <<>>]
  /\ shared_file \in { "", EarlierRecord \o "\n" }

\* line 70: open(path, "a", encoding="utf-8")
WOpen(w) ==
  /\ wpc[w] = "idle"
  /\ shared_file' = OpenAppend(shared_file)
  /\ wpc' = [wpc EXCEPT ![w] = "open"]
  /\ UNCHANGED <<riVars, agVars, trVars, wrec, wpending>>

\* line 71: f.write(json.dumps(self.exchange.dict()) + "\n")
WWrite(w) ==
  /\ wpc[w] = "open"
  /\ \E record \in Records :
       /\ wrec' = [wrec EXCEPT ![w] = record]
       /\ wpending' = [wpending EXCEPT ![w] = WriteCalls(record)]
  /\ wpc' = [wpc EXCEPT ![w] = "written"]
  /\ UNCHANGED <<riVars, agVars, trVars, shared_file>>

\* leaving the `with` block: the held data goes to the end of the file
WFlush(w) ==
  /\ wpc[w] = "written"
  /\ wpending[w] # <<>>
  /\ shared_file' = shared_file \o Head(wpending[w])
  /\ wpending' = [wpending EXCEPT ![w] = Tail(@)]
  /\ UNCHANGED <<riVars, agVars, trVars, wpc, wrec>>

\* leaving the `with` block when the file system stops the write part-way:
\* the beginning of the held data is in the file, the OSError is caught at
\* line 74 and finalize returns
WFlushPartial(w) ==
  /\ wpc[w] = "written"
  /\ wpending[w] # <<>>
  /\ \E n \in FragmentLengths(Head(wpending[w])) :
       shared_file' = shared_file \o SubSeq(Head(wpending[w]), 1, n)
  /\ wpending' = [wpending EXCEPT ![w] = <<>>]
  /\ wpc' = [wpc EXCEPT ![w] = "failed"]
  /\ UNCHANGED <<riVars, agVars, trVars, wrec>>

\* the file is closed and finalize returns
WClose(w) ==
  /\ wpc[w] = "written"
  /\ wpending[w] = <<>>
  /\ wpc' = [wpc EXCEPT ![w] = "closed"]
  /\ UNCHANGED <<riVars, agVars, trVars, wrec, wpending, shared_file>>

NextWriters ==
  \/ \E w \in Writers : WOpen(w)
  \/ \E w \in Writers : WWrite(w)
  \/ \E w \in Writers : WFlush(w)
  \/ \E w \in Writers : WFlushPartial(w)
  \/ \E w \in Writers : WClose(w)

(***************************************************************************)
(* Specifications.                                                         *)
(***************************************************************************)
vars == <<riVars, agVars, trVars, cwVars>>

\* one run of reflective_improve
Init == InitRI /\ AgentQuiet /\ TracerQuiet /\ WritersQuiet
Next == NextRI
Spec == Init /\ [][Next]_vars

\* one run of reflective_improve in which every model call returns or raises
FairSpec == Spec /\ WF_vars(Next)

\* execute invocations on one agent
InitA == RIQuiet /\ InitAgent /\ TracerQuiet /\ WritersQuiet
NextA == NextAgent
SpecAgent == InitA /\ [][NextA]_vars

\* log and finalize calls on one Tracer
InitT == InitTracer
NextT == NextTracer
SpecTracer == InitT /\ [][NextT]_vars

\* concurrent finalize calls for one task id
InitC == RIQuiet /\ AgentQuiet /\ TracerQuiet /\ InitWriters
NextC == NextWriters
SpecConcurrent == InitC /\ [][NextC]_vars

(***************************************************************************)
(* Properties of reflective_improve (specifications Spec and FairSpec).    *)
(***************************************************************************)
Terminal == pc \in {"done", "raised"}

\* the response holds the marker text in some letter case: at some offset
\* every character equals the marker's up to case
HoldsMarkerAnyCase(s) ==
  \E i \in 0..(Len(s) - Len(NO_REVISION_MARKER)) :
    \A j \in 1..Len(NO_REVISION_MARKER) :
      LowerChar(SubSeq(s, i + j, i + j)) = SubSeq(NO_REVISION_MARKER, j, j)

\* the critique responses logged so far
CritiquesLogged ==
  { exchange.messages[i].content :
      i \in { k \in 1..Len(exchange.messages) :
                exchange.messages[k].role = "validator" } }

\* the content of the last agent-role message of the exchange
LastAgentContent ==
  LET idx == { k \in 1..Len(exchange.messages) :
                 exchange.messages[k].role = "agent" }
      last == CHOOSE k \in idx : \A l \in idx : l <= k
  IN exchange.messages[last].content

\* C1: with max_retries = N >= 0 a run makes at most N+1 critique model calls
\* and at most N revision model calls (so none when N = 0).
C1_CallBounds ==
  max_retries >= 0 =>
    /\ critique_calls <= max_retries + 1
    /\ revision_calls <= max_retries

\* the run has reached Done(pass), Done(pass_after_revise) or an error that
\* left reflective_improve
Settled ==
  \/ pc = "raised"
  \/ /\ pc = "done"
     /\ returned # None
     /\ exchange.verdict \in {Some("pass"), Some("pass_after_revise")}

\* C2: when every model call returns or raises, a run with max_retries >= 0
\* eventually reaches Done(pass), Done(pass_after_revise) or a propagated
\* error, whatever the critic answers.
C2_Terminates == (max_retries >= 0) ~> Settled

\* a run driven to its last iteration by critiques that never hold the marker
C2_Witness ==
  /\ pc = "done"
  /\ max_retries >= 1
  /\ critique_calls = max_retries + 1
  /\ \A c \in CritiquesLogged : ~HoldsMarkerAnyCase(c)
  /\ exchange.verdict = Some("pass_after_revise")

\* C3: with max_retries = 0 a run makes exactly one critique call; when that
\* critique signals that no revision is needed there is no revision call and
\* the original draft is returned, otherwise there is exactly one revision
\* call and no second critique.
C3_ZeroRetries ==
  max_retries = 0 =>
    /\ critique_calls <= 1
    /\ revision_calls <= 1
    /\ Terminal =>
         /\ critique_calls = 1
         /\ IF Len(exchange.messages) < 3
              THEN pc = "raised" /\ revision_calls = 0
              ELSE IF HoldsMarkerAnyCase(exchange.messages[3].content)
                     THEN /\ pc = "done"
                          /\ revision_calls = 0
                          /\ returned = Some(draft)
                     ELSE revision_calls = 1

\* max_retries = 0, the critique asked for a revision, the run is over
C3_Witness ==
  /\ max_retries = 0
  /\ pc = "done"
  /\ critique_calls = 1
  /\ revision_calls = 1
  /\ returned # Some(draft)

\* C4: when the first critique response holds "revise_required": false in
\* any letter case, the run returns the original draft, makes no revision
\* call, finalizes with verdict "pass", and the exchange holds exactly the
\* three messages user(task description), agent(draft), validator(critique).
C4_FirstCritiquePasses ==
  (/\ pc # "entry"
   /\ Len(exchange.messages) >= 3
   /\ HoldsMarkerAnyCase(exchange.messages[3].content)) =>
    /\ pc = "done"
    /\ returned = Some(draft)
    /\ revision_calls = 0
    /\ critique_calls = 1
    /\ finalize_calls = 1
    /\ exchange.verdict = Some("pass")
    /\ Len(exchange.messages) = 3
    /\ exchange.messages[1].role = "user"
    /\ exchange.messages[1].content = task_desc
    /\ exchange.messages[2].role = "agent"
    /\ exchange.messages[2].sender = agent_name
    /\ exchange.messages[2].content = draft
    /\ exchange.messages[3].role = "validator"
    /\ exchange.messages[3].sender = "critic"

\* the first critique carries the marker in upper case
C4_Witness ==
  /\ pc = "done"
  /\ Len(exchange.messages) = 3
  /\ exchange.messages[3].content = "\"REVISE_REQUIRED\": FALSE"
  /\ exchange.verdict = Some("pass")

\* C5: with max_retries = 1 and critiques that never hold the marker, the
\* run makes 2 critique calls and 1 revision call, logs 6 messages, ends with
\* verdict "pass_after_revise" and returns the last revision.
C5_OneRetryScenario ==
  (/\ max_retries = 1
   /\ pc = "done"
   /\ \A c \in CritiquesLogged : ~HoldsMarkerAnyCase(c)) =>
    /\ critique_calls = 2
    /\ revision_calls = 1
    /\ Len(exchange.messages) = 6
    /\ exchange.verdict = Some("pass_after_revise")
    /\ returned = Some(replies[Len(replies)])

\* C6: on every normal return the returned text is the most recent draft:
\* the original draft when no revision call was made, else the reply of the
\* last revision call; it is the content of the last agent-role message.
C6_ReturnsLatestDraft ==
  pc = "done" =>
    /\ returned = Some(LastAgentContent)
    /\ revision_calls = 0 => returned = Some(draft)
    /\ revision_calls > 0 => returned = Some(replies[2 * revision_calls])

\* a return after two revisions whose replies differ from each other
C6_Witness ==
  /\ pc = "done"
  /\ revision_calls = 2
  /\ replies[2] # replies[4]
  /\ returned = Some(replies[4])

\* C7: the exchange is always the task description, the initial draft of the
\* producing agent, then validator messages of "critic" alternating with
\* agent messages of "{agent_name}-reviser", one per completed model call in
\* call order; the message count is 2 + completed critiques + completed
\* revisions.
C7_AuditTrail ==
  pc # "entry" =>
    LET m == exchange.messages IN
      /\ Len(replies) = critique_calls + revision_calls - llm_failures
      /\ Len(m) = 2 + Len(replies)
      /\ m[1] = [id |-> 1, role |-> "user", sender |-> "user",
                 content |-> task_desc]
      /\ m[2] = [id |-> 2, role |-> "agent", sender |-> agent_name,
                 content |-> draft]
      /\ \A i \in 3..Len(m) :
           /\ m[i].id = i
           /\ m[i].content = replies[i - 2]
           /\ IF i % 2 = 1
                THEN m[i].role = "validator" /\ m[i].sender = "critic"
                ELSE /\ m[i].role = "agent"
                     /\ m[i].sender = agent_name \o "-reviser"

\* two iterations in which the critic and the reviser repeated themselves
C7_Witness ==
  /\ pc # "entry"
  /\ Len(exchange.messages) = 6
  /\ exchange.messages[3].content = exchange.messages[5].content
  /\ exchange.messages[4].content = exchange.messages[6].content

\* C8: a model call of reflective_improve that fails is retried;
\* reflective_improve does not fail on the first failure of a model call.
C8_RetriesBeforeFailing ==
  pc = "raised" => llm_failures > 1

(***************************************************************************)
(* Properties of call_openai / execute (specification SpecAgent).          *)
(***************************************************************************)
\* the logger entries of the current invocation
CurrentLog == SubSeq(log, log_start + 1, Len(log))

EntriesOf(event) ==
  { i \in 1..Len(CurrentLog) : CurrentLog[i].event = event }

\* C9: a call that fails k < max_retries times and then succeeds returns
\* the reply of the successful call, makes k+1 model calls and logs k error
\* entries and 1 success entry.
C9_RetryThenSuccess ==
  cpc = "returned" =>
    /\ retries < self_max_retries
    /\ Len(llm_replies) = 1
    /\ summary = Some(llm_replies[1])
    /\ model_calls = retries + 1
    /\ Cardinality(EntriesOf("error")) = retries
    /\ Cardinality(EntriesOf("received")) = 1

\* the terminal error is the one the invocation ended with
EndedWithTerminalError ==
  raised_error = Some(TerminalError(self_name, self_max_retries))

\* the invocation ended with an exception of llm_call that line 57 does not
\* catch
EndedWithUncaught ==
  /\ raised_error # None
  /\ raised_error[1] \in LlmFailures
  /\ ~ExceptCatches(raised_error[1])

\* C10: when the model call fails max_retries times in one invocation (each
\* time with an error, an exception deriving from Exception, as llm_call
\* raises them), the invocation stops calling the model and ends with an
\* error naming the agent and the number of attempts made, which reaches
\* the caller of execute; a reply is handed back only from a successful
\* model call. An invocation ends with an exception in no other way than
\* this one or with an exception of llm_call that is not an error
\* (KeyboardInterrupt, SystemExit), which passes through as it is.
C10_TerminalError ==
  self_max_retries >= 0 =>
    /\ cpc \in {"llm_call", "returned"} => retries < self_max_retries
    /\ (cpc # "idle" /\ retries = self_max_retries) =>
         /\ cpc = "raised"
         /\ model_calls = self_max_retries
         /\ Cardinality(EntriesOf("error")) = self_max_retries
         /\ raised_error = Some([agent |-> self_name, attempts |-> model_calls])
    /\ cpc = "raised" =>
         /\ llm_replies = <<>>
         /\ summary = None
         /\ \/ EndedWithTerminalError /\ retries = self_max_retries
            \/ /\ EndedWithUncaught
               /\ retries < self_max_retries
               /\ model_calls = retries + 1
    /\ summary # None =>
         /\ cpc = "returned"
         /\ raised_error = None
         /\ llm_replies # <<>>
         /\ summary = Some(llm_replies[Len(llm_replies)])

\* three failed attempts on a budget of three
C10_Witness ==
  /\ cpc = "raised"
  /\ self_max_retries = 3
  /\ model_calls = 3
  /\ Cardinality(EntriesOf("error")) = 3
  /\ raised_error = Some([agent |-> "SummarizeTool", attempts |-> 3])

\* the token totals of the exchange
Totals(ex) ==
  [prompt_tokens |-> ex.cost_tokens_prompt,
   output_tokens |-> ex.cost_tokens_output]

\* C11: Tracer.finalize never raises: a failed append to the trace file is
\* caught and logged as an error and finalize returns, so a
\* reflective_improve run whose trace cannot be written still returns its
\* draft; the raise position is reached from a failed model call only.
C11_FinalizeNeverRaises ==
  /\ Len(trace_log) = finalize_calls
  /\ pc = "raised" => finalize_calls = 0 /\ llm_failures = 1
  /\ finalize_calls = 1 =>
       /\ pc = "done"
       /\ returned = current_draft
       /\ returned # None
       /\ trace_log[1].path = TracePath(task_id)
       /\ IF trace_file.lines = <<>>
            THEN /\ trace_log[1].level = "ERROR"
                 /\ trace_log[1].event = "trace_write_failed"
                 /\ trace_log[1].error \in {"PermissionError", "OSError"}
            ELSE /\ trace_log[1].level = "INFO"
                 /\ trace_file.lines = <<[before |-> <<>>, record |-> exchange]>>

\* a run that revised, could not write its trace and returned the revision
C11_Witness ==
  /\ pc = "done"
  /\ finalize_calls = 1
  /\ trace_file = EmptyFile
  /\ trace_log[1].level = "ERROR"
  /\ trace_log[1].error = "PermissionError"
  /\ returned = Some("revision B")
  /\ exchange.verdict = Some("pass_after_revise")

\* C18: the token totals reflective_improve hands to finalize cover the
\* final iteration only: the last critique call's usage on the pass path,
\* the last critique call's plus the last revision call's on the
\* pass_after_revise path; the persisted line carries the same totals.
C18_FinalIterationTokens ==
  finalize_calls = 1 =>
    /\ exchange.verdict \in {Some("pass"), Some("pass_after_revise")}
    /\ exchange.verdict = Some("pass") => Totals(exchange) = usage1[1]
    /\ exchange.verdict = Some("pass_after_revise") =>
         Totals(exchange) =
           [prompt_tokens |-> usage1[1].prompt_tokens + usage2[1].prompt_tokens,
            output_tokens |-> usage1[1].output_tokens + usage2[1].output_tokens]
    /\ trace_file.lines # <<>> =>
         Totals(trace_file.lines[1].record) = Totals(exchange)

\* the first iteration's critique call used tokens, the final iteration's
\* critique and revision calls reported none, and the persisted totals are 0
C18_Witness ==
  /\ pc = "done"
  /\ attempt >= 1
  /\ first_usage = Some([prompt_tokens |-> 2, output_tokens |-> 1])
  /\ usage1 = Some([prompt_tokens |-> 0, output_tokens |-> 0])
  /\ exchange.verdict = Some("pass_after_revise")
  /\ trace_file.lines # <<>>
  /\ Totals(trace_file.lines[1].record) =
       [prompt_tokens |-> 0, output_tokens |-> 0]

\* C19: reflective_improve calls finalize exactly once on every normal
\* return with max_retries >= 0, in the step that returns, and not at all
\* when a critique or revision model call raises: then nothing is returned
\* and no trace line exists, although the task description, the draft and
\* every earlier critique and revision are in the exchange's messages.
C19_FinalizeOncePerReturn ==
  /\ finalize_calls <= 1
  /\ pc \in {"entry", "critique", "revise"} => finalize_calls = 0
  /\ (pc = "done" /\ max_retries >= 0) => finalize_calls = 1
  /\ pc = "raised" =>
       /\ finalize_calls = 0
       /\ trace_file = EmptyFile
       /\ returned = None
       /\ llm_failures = 1
       /\ Len(exchange.messages) = 1 + critique_calls + revision_calls
       /\ exchange.messages[1].content = task_desc
       /\ exchange.messages[2].content = draft

\* the second iteration's revision call raised after two critiques and one
\* revision were logged
C19_Witness ==
  /\ pc = "raised"
  /\ revision_calls = 2
  /\ critique_calls = 2
  /\ Len(exchange.messages) = 5
  /\ finalize_calls = 0
  /\ trace_file = EmptyFile

\* C20: each call_openai invocation has its own retry budget: it makes at
\* most max_retries model calls, none after its first success, and counts
\* its failures from zero whatever earlier invocations on the agent did;
\* with max_retries <= 0 it makes no model call and raises the terminal
\* error at once.
C20_OwnRetryBudget ==
  /\ model_calls <= (IF self_max_retries > 0 THEN self_max_retries ELSE 0)
  /\ Len(llm_replies) <= 1
  /\ cpc # "idle" =>
       /\ Cardinality(EntriesOf("error")) = retries
       /\ { CurrentLog[i].retry : i \in EntriesOf("error") } = 1..retries
  /\ cpc = "llm_call" => model_calls = retries + 1 /\ llm_replies = <<>>
  /\ cpc = "returned" => model_calls = retries + 1 /\ Len(llm_replies) = 1
  /\ cpc = "raised" =>
       /\ llm_replies = <<>>
       /\ IF EndedWithTerminalError
            THEN /\ model_calls = retries
                 /\ model_calls =
                      (IF self_max_retries > 0 THEN self_max_retries ELSE 0)
            ELSE model_calls = retries + 1
  /\ self_max_retries <= 0 =>
       /\ model_calls = 0
       /\ cpc \in {"idle", "raised"}
       /\ cpc = "raised" => EndedWithTerminalError

\* a second invocation that used its whole budget of two calls after the
\* first invocation had used up its own
C20_Witness ==
  /\ invocation = 2
  /\ self_max_retries = 2
  /\ cpc = "raised"
  /\ model_calls = 2
  /\ \E i \in 1..log_start : log[i].event = "error" /\ log[i].retry = 2

\* the finalize calls whose write succeeded, in call order
WriteSucceeded(f) == Written(f.outcome) = "line"

SuccessfulFinalizes == SelectSeq(finalizes, WriteSucceeded)

IsPrefix(a, b) == Len(a) <= Len(b) /\ a = SubSeq(b, 1, Len(a))

\* the totals before the k-th finalize call
TotalsBefore(k) ==
  IF k = 1 THEN [prompt_tokens |-> 0, output_tokens |-> 0]
           ELSE Totals(finalizes[k - 1].after)

\* C12 as stated: the token totals of a Tracer start at zero and each
\* finalize call adds its prompt_tokens and output_tokens arguments to
\* them, so over any sequence of finalize calls the totals never decrease.
C12_EachFinalizeAdds ==
  tpc # "unbuilt" =>
    /\ finalizes = <<>> =>
         Totals(exchange) = [prompt_tokens |-> 0, output_tokens |-> 0]
    /\ \A k \in 1..Len(finalizes) :
         LET f == finalizes[k]
         IN /\ Totals(f.after).prompt_tokens =
                 TotalsBefore(k).prompt_tokens + f.prompt_tokens
            /\ Totals(f.after).output_tokens =
                 TotalsBefore(k).output_tokens + f.output_tokens
            /\ Totals(f.after).prompt_tokens >= TotalsBefore(k).prompt_tokens
            /\ Totals(f.after).output_tokens >= TotalsBefore(k).output_tokens

\* C12 (amended): the token totals of a Tracer start at zero and never
\* decrease over any sequence of finalize calls. A finalize call that runs
\* past line 66 has added its prompt_tokens and output_tokens arguments to
\* the totals, whether its write succeeds, fails or is cut short; a call
\* that an exception ends earlier has added what its lines reached:
\* nothing (ended in line 64 or 65), or the prompt tokens without the
\* output tokens (ended in line 66). Nothing but finalize changes the
\* totals.
C12_TokensAccumulate ==
  tpc # "unbuilt" =>
    /\ finalizes = <<>> =>
         Totals(exchange) = [prompt_tokens |-> 0, output_tokens |-> 0]
    /\ finalizes # <<>> =>
         Totals(exchange) = Totals(finalizes[Len(finalizes)].after)
    /\ \A k \in 1..Len(finalizes) :
         LET f == finalizes[k]
         IN /\ Totals(f.before) = TotalsBefore(k)
            /\ Totals(f.after).prompt_tokens =
                 TotalsBefore(k).prompt_tokens +
                   (IF f.outcome.at \in {"line64", "line65"}
                      THEN 0 ELSE f.prompt_tokens)
            /\ Totals(f.after).output_tokens =
                 TotalsBefore(k).output_tokens +
                   (IF f.outcome.at \in {"line64", "line65", "line66"}
                      THEN 0 ELSE f.output_tokens)
            /\ Totals(f.after).prompt_tokens >= TotalsBefore(k).prompt_tokens
            /\ Totals(f.after).output_tokens >= TotalsBefore(k).output_tokens

\* finalize("pass", 2, 1) cut short in line 66, then finalize("pass", 2, 1)
\* run to its end: the totals are 4 and 1
C12_Witness ==
  /\ Len(finalizes) = 2
  /\ finalizes[1].prompt_tokens = 2
  /\ finalizes[1].output_tokens = 1
  /\ finalizes[1].outcome = Fails(KeyboardInterrupt, "line66")
  /\ finalizes[2].prompt_tokens = 2
  /\ finalizes[2].output_tokens = 1
  /\ finalizes[2].outcome = Ok
  /\ Totals(exchange) = [prompt_tokens |-> 4, output_tokens |-> 1]

\* every finalize call so far returned: none was cut short by a signal
EveryFinalizeReturned ==
  \A k \in 1..Len(finalizes) : ~FinalizeRaises(finalizes[k].outcome)

\* C13: latency_ms is null until the first finalize and every later
\* finalize leaves it at the value the first one stamped. (Stated of the
\* calls that returned.)
C13_LatencySetOnce ==
  (tpc # "unbuilt" /\ EveryFinalizeReturned) =>
    /\ finalizes = <<>> => exchange.latency_ms = None
    /\ \A k \in 1..Len(finalizes) :
         /\ finalizes[k].after.latency_ms # None
         /\ finalizes[k].after.latency_ms = finalizes[1].after.latency_ms

\* C14: each finalize call whose write succeeds appends one line holding
\* the exchange as it is after that call, and earlier lines stay as they
\* were: the file holds one line per successful finalize in call order,
\* and each line's messages are a prefix of the next line's. (Stated of
\* the calls that returned.)
C14_OneLinePerSuccessfulFinalize ==
  (tpc # "unbuilt" /\ EveryFinalizeReturned) =>
    LET lines == trace_file.lines IN
      /\ Len(lines) = Len(SuccessfulFinalizes)
      /\ \A k \in 1..Len(lines) :
           lines[k] = [before |-> <<>>, record |-> SuccessfulFinalizes[k].after]
      /\ \A k \in 1..(Len(lines) - 1) :
           IsPrefix(lines[k].record.messages, lines[k + 1].record.messages)
      /\ lines # <<>> =>
           IsPrefix(lines[Len(lines)].record.messages, exchange.messages)

\* C16: Exchange.messages is the sequence of the messages handed to log, in
\* call order, whether a message equals or is an earlier one and whether
\* finalize was called in between (and however that call ended).
C16_MessagesInCallOrder ==
  tpc # "unbuilt" =>
    /\ exchange.messages = logged
    /\ \A k \in 1..Len(finalizes) :
         /\ finalizes[k].after.messages = finalizes[k].before.messages
         /\ IsPrefix(finalizes[k].after.messages, logged)

\* a message logged, a finalize that returned, a finalize cut short by a
\* signal, then the same message object logged again
C16_Witness ==
  /\ Len(logged) = 2
  /\ logged[1] = logged[2]
  /\ Len(finalizes) = 2
  /\ finalizes[1].outcome = Ok
  /\ FinalizeRaises(finalizes[2].outcome)
  /\ Len(finalizes[2].after.messages) = 1
  /\ exchange.messages = logged

\* C17: constructing a Tracer with an empty task_id fails, and with a
\* non-empty task_id it gives an exchange with no messages, zero token
\* totals, null latency and null verdict.
C17_EmptyTaskIdRejected ==
  /\ task_id = "" => tpc = "unbuilt"
  /\ (tpc = "ready" /\ logged = <<>> /\ finalizes = <<>>) =>
       exchange = [task_id |-> task_id, messages |-> <<>>,
                   cost_tokens_prompt |-> 0, cost_tokens_output |-> 0,
                   latency_ms |-> None, verdict |-> None]

\* the lines of a text: what stands before each newline
RECURSIVE SplitLines(_)
SplitLines(text) ==
  IF \A i \in 1..Len(text) : SubSeq(text, i, i) # "\n"
    THEN <<>>
    ELSE LET n == CHOOSE i \in 1..Len(text) :
                    /\ SubSeq(text, i, i) = "\n"
                    /\ \A j \in 1..(i - 1) : SubSeq(text, j, j) # "\n"
         IN <<SubSeq(text, 1, n - 1)>>
              \o SplitLines(SubSeq(text, n + 1, Len(text)))

\* what stands after the last newline of a text
RECURSIVE Unterminated(_)
Unterminated(text) ==
  IF \A i \in 1..Len(text) : SubSeq(text, i, i) # "\n"
    THEN text
    ELSE LET n == CHOOSE i \in 1..Len(text) : SubSeq(text, i, i) = "\n"
         IN Unterminated(SubSeq(text, n + 1, Len(text)))

\* the finalize calls whose line has reached the file
Flushed == { w \in Writers : wpc[w] \in {"written", "closed"} /\ wpending[w] = <<>> }

\* the lines the concurrent calls added to the file
AddedLines ==
  LET ls == SplitLines(shared_file)
  IN IF ls # <<>> /\ ls[1] = EarlierRecord THEN Tail(ls) ELSE ls

\* C15: when finalize calls for one task id run concurrently, every line of
\* the file is the whole record of one call: at every moment the file ends
\* at a line end, and its added lines are the records of the calls whose
\* write reached the file, one line per call.
C15_WholeLinesOnly ==
  /\ Unterminated(shared_file) = ""
  /\ Len(AddedLines) = Cardinality(Flushed)
  /\ \A k \in 1..Len(AddedLines) : AddedLines[k] \in { wrec[w] : w \in Flushed }
  /\ \A w \in Flushed :
       Cardinality({ k \in 1..Len(AddedLines) : AddedLines[k] = wrec[w] })
         = Cardinality({ v \in Flushed : wrec[v] = wrec[w] })

\* C21: every finalize call, also one whose write fails, stamps the
\* latency, adds its token arguments to the totals and assigns its verdict
\* when one is given; with the verdict omitted the earlier verdict stays; a
\* failed write leaves the trace file as it was; no finalize call changes
\* the messages or the task_id. (The calls that returned; a call cut short
\* by a signal is not one whose write failed.)
C21_FinalizeFrame ==
  \A k \in 1..Len(finalizes) :
    LET f == finalizes[k]
    IN ~FinalizeRaises(f.outcome) =>
       /\ f.after.latency_ms = Some(f.elapsed)
       /\ f.after.cost_tokens_prompt =
            f.before.cost_tokens_prompt + f.prompt_tokens
       /\ f.after.cost_tokens_output =
            f.before.cost_tokens_output + f.output_tokens
       /\ f.after.verdict =
            (IF f.verdict # None THEN f.verdict ELSE f.before.verdict)
       /\ f.after.messages = f.before.messages
       /\ f.after.task_id = f.before.task_id
       /\ f.after.task_id = task_id
       /\ f.outcome # Ok => f.file_after = f.file_before
       /\ f.outcome = Ok =>
            f.file_after =
              [lines |-> Append(f.file_before.lines,
                                [before |-> f.file_before.tail,
                                 record |-> f.after]),
               tail |-> <<>>]

====
